---- MODULE Spec2Model ----
(***************************************************************************)
(* Model of src/main.py: the provisioning / liveness / teardown workflow   *)
(* driven by main(), against a cloud provider whose answers are chosen     *)
(* nondeterministically (operation latency and failure, transient errors   *)
(* of the deployment lookup, disk detachment latency, SSH probes, random   *)
(* ports).  Every provider call, probe and sleep is appended to `calls'.   *)
(***************************************************************************)
EXTENDS Integers, Sequences, FiniteSets, TLC

(* ------------------------------ bounds --------------------------------- *)
MaxVms == 2
MaxDelays == 2
MaxPreRoles == 2
MaxDataDisks == 1
PortSamples == 1
MaxRuns == 2

(* ------------------------- program constants --------------------------- *)
PortLo == 4096
PortHi == 65536
OpSleep == 1
SshSleep == 1
DiskSleep == 10
SshPort == 22

(* ------------------------------ state ---------------------------------- *)
VARIABLES
  ns,              \* parsed command line flags (main)
  n_vms,           \* config.n_vms
  vm_config,       \* the VM template loaded from ns.vm_config
  pc,              \* position of the sequential control flow
  ret,             \* continuation of the running wait_for_operation
  raised,          \* exception that reached the top level: <<>> or <<exc>>
  calls,           \* trace of provider calls, probes and sleeps
  started,         \* number of batch iterations entered (main, line 451)
  vm,              \* locals of the running deploy_vm
  operation,       \* request id being awaited
  status,          \* last status polled by wait_for_operation
  ssh_targets,     \* test_ssh work queue
  initial_targets, \* test_ssh target list as first built
  td_deployments,  \* teardown: deployments of the fetched service still to do
  disks_to_delete, \* teardown: disk work queue of the current deployment
  collected,       \* teardown: every disk name collected so far
  roles_todo,      \* snapshot: role instances still to snapshot
  svc,             \* provider: hosted service exists
  deps,            \* provider: deployment name -> sequence of roles
  disks,           \* provider: disk name -> attached_to
  images,          \* provider: OS images
  ops,             \* provider: operations, indexed by request id
  nextVm,          \* source of fresh VM names (uuid4)
  phase,           \* workflow phase main is in
  runs,            \* number of times the program has been invoked
  at_start,        \* provider state at the beginning of each run
  never,           \* environment: targets never up, disks never detached
  flows,           \* concurrent callers of deploy_vm: locals of each flow
  serialized,      \* the caller runs the flows one after the other
  delays           \* remaining "not yet" answers of the environment

vars == <<ns, n_vms, vm_config, pc, ret, raised, calls, started, vm, operation,
          status, ssh_targets, initial_targets, td_deployments, disks_to_delete,
          collected, roles_todo, svc, deps, disks, images, ops, nextVm, phase, runs, at_start, never, flows,
          serialized, delays>>

progVars == <<ns, n_vms, vm_config, runs, at_start, never, flows, serialized>>
deployLocals == <<started, vm>>
sshLocals == <<ssh_targets, initial_targets>>
tdLocals == <<td_deployments, disks_to_delete, collected>>
providerVars == <<svc, deps, disks, images, ops>>

(* ------------------------------ values --------------------------------- *)
None == <<>>
Some(x) == <<x>>

ServiceName == "svc"

\* the concurrent callers of deploy_vm
Flows == {1, 2}
DeploymentName == "d1"
DeploymentNames == {"d1", "d2"}

Errors == {[code |-> "InternalError", message |-> "m1"],
           [code |-> "ConflictError", message |-> "m2"]}

\* what get_operation_status can answer: the error element accompanies Failed
OperationStatuses ==
  {[status |-> "InProgress", error |-> None], [status |-> "Succeeded", error |-> None]}
    \cup {[status |-> "Failed", error |-> Some(e)] : e \in Errors}

SshNat == [name |-> "ssh", port |-> 22, lb |-> FALSE]
HttpNat == [name |-> "http", port |-> 80, lb |-> TRUE]

\* VM templates: NAT ports, number of data disks, number of public IP names
\* and what is wrong with the file: nothing, a required field that is missing,
\* or a name pattern that uses a key deploy_vm does not supply
Template(np, nd, ip) ==
  [nat_ports |-> np, data_disks |-> nd, public_ips |-> ip, defect |-> "none"]

Templates ==
  {Template(np, nd, ip) :
     np \in {<<SshNat>>, <<HttpNat, SshNat>>}, nd \in 0..MaxDataDisks, ip \in {0, 1}}

BadTemplates ==
  {[t EXCEPT !.defect = d] : t \in Templates, d \in {"missing_field", "missing_key"}}

\* one entry of the trace: the call, its result, and where main was
Call(op, arg, res) ==
  [op |-> op, arg |-> arg, res |-> res, phase |-> phase,
   iter |-> IF phase = "provision" THEN started ELSE 0]

IsProviderCall(c) == c.op \notin {"sleep", "ssh_up"}

ProviderCalls == SelectSeq(calls, IsProviderCall)

RECURSIVE SeqToSet(_)
SeqToSet(s) == IF s = <<>> THEN {} ELSE {Head(s)} \cup SeqToSet(Tail(s))

(* --------------------------- the provider ------------------------------ *)
Role(name, endpoints, ndata, nips) ==
  [role_name |-> name, endpoints |-> endpoints, ndata |-> ndata,
   public_ips |-> [k \in 1..nips |-> <<"ip", name, k>>],
   instance_status |-> "ReadyRole"]

\* disks of a role: <<role, 0>> is the OS disk, <<role, k>> the k-th data disk
RoleDisks(r) == [k \in 1..(r.ndata + 1) |-> <<r.role_name, k - 1>>]

AllRoles == UNION {SeqToSet(deps[d]) : d \in DeploymentNames}

RoleNames == {r.role_name : r \in AllRoles}

Op(kind, dep, roles, image) ==
  [kind |-> kind, dep |-> dep, roles |-> roles, image |-> image,
   status |-> [status |-> "InProgress", error |-> None]]

OpCanSucceed(o) ==
  CASE o.kind = "create_virtual_machine_deployment" -> svc /\ deps[o.dep] = <<>>
    [] o.kind = "add_role" -> deps[o.dep] # <<>>
    [] o.kind = "delete_deployment" -> deps[o.dep] # <<>>
    [] o.kind \in {"start_roles", "shutdown_roles"} -> deps[o.dep] # <<>>
    [] OTHER -> TRUE

SetStatus(rs, st) == [i \in 1..Len(rs) |-> [rs[i] EXCEPT !.instance_status = st]]

\* the deployments once operation o has succeeded
DepsAfter(o) ==
  CASE o.kind = "create_virtual_machine_deployment" -> [deps EXCEPT ![o.dep] = o.roles]
    [] o.kind = "add_role" -> [deps EXCEPT ![o.dep] = deps[o.dep] \o o.roles]
    [] o.kind = "delete_deployment" -> [deps EXCEPT ![o.dep] = <<>>]
    [] o.kind = "start_roles" -> [deps EXCEPT ![o.dep] = SetStatus(deps[o.dep], "ReadyRole")]
    [] o.kind = "shutdown_roles" ->
         [deps EXCEPT ![o.dep] = SetStatus(deps[o.dep], "StoppedDeallocated")]
    [] OTHER -> deps

\* the disks once operation o has succeeded: a new role's disks are attached to it
DisksAfter(o) ==
  IF o.kind \in {"create_virtual_machine_deployment", "add_role"}
  THEN LET new == {<<r.role_name, k>> : r \in SeqToSet(o.roles), k \in 0..MaxDataDisks}
           mine == {d \in new : d[2] <= (CHOOSE r \in SeqToSet(o.roles) : r.role_name = d[1]).ndata}
       IN [d \in DOMAIN disks \cup mine |->
             IF d \in mine THEN Some(d[1]) ELSE disks[d]]
  ELSE disks

ImagesAfter(o) == IF o.kind = "add_os_image" THEN images \cup {o.image} ELSE images

\* the answers get_operation_status may give for request id rid
StatusAnswers(rid) ==
  IF ops[rid].status.status # "InProgress" THEN {ops[rid].status}
  ELSE {st \in OperationStatuses :
          /\ st.status = "InProgress" => delays > 0
          /\ st.status = "Succeeded" => OpCanSucceed(ops[rid])}

(* ------------------------ wait_for_operation --------------------------- *)
OperationFailed(code, message) ==
  [type |-> "OperationFailed", code |-> code, message |-> message]

\* what reading a defective template raises: vm_config.net and the like raise
\* AttributeError (line 108), str.format raises KeyError (lines 139, 154)
TemplateError(t) ==
  [type |-> IF t.defect = "missing_field" THEN "AttributeError" ELSE "KeyError",
   code |-> "", message |-> ""]

ProviderError == [type |-> "WindowsAzureError", code |-> "", message |-> ""]
MissingResource == [type |-> "WindowsAzureMissingResourceError", code |-> "", message |-> ""]

\* the loop is left after the first poll, whatever it answered
WaitDone_FirstPoll(st) == TRUE

\* line 53: the polling loop is left on any status but InProgress
WaitDone(st) == st.status # "InProgress"

\* the error of the terminal status is not looked at
WaitRaises_Never(st) == FALSE

\* line 58: the terminal status raises when it carries an error
WaitRaises(st) == st.error # None

\* the batch loop catches what deploy_vm raises and goes on with the next VM
OnRaise_Continue(at) == IF at \in {"dv_get", "wait_poll"} THEN "batch" ELSE "aborted"

\* main has no exception handler: an exception ends the run
OnRaise(at) == "aborted"

WaitPoll ==
  /\ pc = "wait_poll"
  /\ \E st \in StatusAnswers(operation) :
       LET o == ops[operation]
           resolved == o.status.status = "InProgress" /\ st.status = "Succeeded"
           polled == Append(calls, Call("get_operation_status", <<operation>>, st.status))
       IN /\ ops' = [ops EXCEPT ![operation].status = st]
          /\ deps' = IF resolved THEN DepsAfter(o) ELSE deps
          /\ disks' = IF resolved THEN DisksAfter(o) ELSE disks
          /\ images' = IF resolved THEN ImagesAfter(o) ELSE images
          /\ delays' = IF st.status = "InProgress" THEN delays - 1 ELSE delays
          /\ status' = st
          /\ IF ~WaitDone(st)
             THEN /\ calls' = Append(polled, Call("sleep", <<OpSleep>>, "ok"))
                  /\ UNCHANGED <<pc, raised>>
             ELSE /\ calls' = polled
                  /\ IF WaitRaises(st)
                     THEN /\ raised' = Some(OperationFailed(st.error[1].code, st.error[1].message))
                          /\ pc' = OnRaise(pc)
                     ELSE /\ pc' = ret
                          /\ UNCHANGED raised
  /\ UNCHANGED <<progVars, ret, deployLocals, operation, sshLocals, tdLocals,
                 roles_todo, svc, nextVm, phase>>

(* ------------------------------ deploy_vm ------------------------------ *)
\* random.randint(a, b): a sample of the inclusive range a..b
RandInt(a, b) == {x \in a..b : x < a + PortSamples \/ x = b}

\* line 69
RandomPorts == {x - 1 : x \in RandInt(PortLo, PortHi)}

\* the name of the endpoint set is the bare port name
LbSetName_Bare(name) == name

\* line 120
LbSetName(name) == "lb-" \o name

\* lines 108-127: one input endpoint per NAT port; rnd[i] is the random port
\* drawn for the i-th NAT port when it is not load-balanced
NetworkConfiguration(nat_ports, rnd) ==
  [i \in 1..Len(nat_ports) |->
     IF nat_ports[i].lb
     THEN [name |-> nat_ports[i].name, local_port |-> nat_ports[i].port,
           port |-> nat_ports[i].port,
           load_balanced_endpoint_set_name |-> Some(LbSetName(nat_ports[i].name))]
     ELSE [name |-> nat_ports[i].name, local_port |-> nat_ports[i].port,
           port |-> rnd[i],
           load_balanced_endpoint_set_name |-> None]]

NonLb(nat_ports) == {i \in 1..Len(nat_ports) : ~nat_ports[i].lb}

\* a bare except: every failure of the lookup selects the creation
Resolve_BareExcept(outcome) ==
  CASE outcome = "found" -> "add_role"
    [] OTHER -> "create_virtual_machine_deployment"

\* the lookup's errors are swallowed: whatever is not "missing" adds a role
Resolve_Swallow(outcome) ==
  CASE outcome = "missing" -> "create_virtual_machine_deployment"
    [] OTHER -> "add_role"

\* the existence check is lost: every VM creates the deployment
Resolve_AlwaysCreate(outcome) ==
  CASE outcome \in {"missing", "found"} -> "create_virtual_machine_deployment"
    [] OTHER -> "raise"

\* lines 239-260: the method chosen for an outcome of get_deployment_by_name
Resolve(outcome) ==
  CASE outcome = "missing" -> "create_virtual_machine_deployment"
    [] outcome = "found" -> "add_role"
    [] OTHER -> "raise"

\* the outcomes get_deployment_by_name can have
DeploymentLookups(d) ==
  {IF svc /\ deps[d] # <<>> THEN "found" ELSE "missing", "error"}

MainProvision ==
  /\ pc = "main_provision"
  /\ phase' = "provision"
  /\ pc' = IF ns.vm_config THEN "chs_get" ELSE "main_start"
  /\ UNCHANGED <<progVars, ret, raised, calls, deployLocals, operation, status,
                 sshLocals, tdLocals, roles_todo, providerVars, nextVm, delays>>

\* create_hosted_service, lines 72-82
CreateHostedService ==
  /\ pc = "chs_get"
  /\ LET got == Append(calls, Call("get_hosted_service_properties", <<ServiceName>>,
                                   IF svc THEN "found" ELSE "missing"))
     IN calls' = IF svc THEN got
                 ELSE Append(got, Call("create_hosted_service", <<ServiceName>>, "ok"))
  /\ svc' = TRUE
  /\ pc' = "batch"
  /\ UNCHANGED <<progVars, ret, raised, deployLocals, operation, status, sshLocals,
                 tdLocals, roles_todo, deps, disks, images, ops, nextVm, phase, delays>>

\* main, lines 451-452, and deploy_vm, lines 87-98
Batch ==
  /\ pc = "batch"
  /\ IF started < n_vms
     THEN /\ started' = started + 1
          /\ vm' = [name |-> nextVm, endpoints |-> <<>>, method |-> "none"]
          /\ nextVm' = nextVm + 1
          /\ calls' = Append(calls, [Call("create_container", <<"vhds">>, "ok")
                                       EXCEPT !.iter = started + 1])
          /\ pc' = "dv_build"
     ELSE /\ pc' = "main_start"
          /\ UNCHANGED <<started, vm, nextVm, calls>>
  /\ UNCHANGED <<progVars, ret, raised, operation, status, sshLocals, tdLocals,
                 roles_todo, providerVars, phase, delays>>

\* deploy_vm, lines 106-230: the configuration of the VM
DvBuild ==
  /\ pc = "dv_build"
  /\ IF vm_config.defect # "none"
     THEN /\ raised' = Some(TemplateError(vm_config))
          /\ pc' = OnRaise(pc)
          /\ UNCHANGED vm
     ELSE /\ \E rnd \in [NonLb(vm_config.nat_ports) -> RandomPorts] :
               vm' = [vm EXCEPT !.endpoints = NetworkConfiguration(vm_config.nat_ports, rnd)]
          /\ pc' = "dv_get"
          /\ UNCHANGED raised
  /\ UNCHANGED <<progVars, ret, calls, started, operation, status, sshLocals,
                 tdLocals, roles_todo, providerVars, nextVm, phase, delays>>

\* deploy_vm, lines 239-260
DvGet ==
  /\ pc = "dv_get"
  /\ \E outcome \in DeploymentLookups(DeploymentName) :
       /\ calls' = Append(calls, Call("get_deployment_by_name",
                                      <<ServiceName, DeploymentName>>, outcome))
       /\ IF Resolve(outcome) = "raise"
          THEN /\ raised' = Some(ProviderError)
               /\ pc' = OnRaise(pc)
               /\ UNCHANGED vm
          ELSE /\ vm' = [vm EXCEPT !.method = Resolve(outcome)]
               /\ pc' = "dv_submit"
               /\ UNCHANGED raised
  /\ UNCHANGED <<progVars, ret, started, operation, status, sshLocals, tdLocals,
                 roles_todo, providerVars, nextVm, phase, delays>>

\* deploy_vm, lines 263-264
DvSubmit ==
  /\ pc = "dv_submit"
  /\ ops' = Append(ops, Op(vm.method, DeploymentName,
                           <<Role(vm.name, vm.endpoints, vm_config.data_disks,
                                  vm_config.public_ips)>>, 0))
  /\ operation' = Len(ops) + 1
  /\ calls' = Append(calls, Call(vm.method, <<ServiceName, DeploymentName, vm.name>>, "ok"))
  /\ pc' = "wait_poll"
  /\ ret' = "batch"
  /\ UNCHANGED <<progVars, raised, deployLocals, status, sshLocals, tdLocals,
                 roles_todo, svc, deps, disks, images, nextVm, phase, delays>>

(* ------------------------------ start / stop --------------------------- *)
MainStart ==
  /\ pc = "main_start"
  /\ phase' = "start"
  /\ pc' = IF ns.start THEN "start" ELSE "main_test_ssh"
  /\ UNCHANGED <<progVars, ret, raised, calls, deployLocals, operation, status,
                 sshLocals, tdLocals, roles_todo, providerVars, nextVm, delays>>

RoleNamesOf(rs) == [i \in 1..Len(rs) |-> rs[i].role_name]

\* the common shape of start (lines 400-404) and stop (lines 407-416):
\* fetch the deployment, submit the operation on all its roles, wait
RolesOperation(at, kind, next) ==
  /\ pc = at
  /\ \E outcome \in DeploymentLookups(DeploymentName) :
       LET got == Append(calls, Call("get_deployment_by_name",
                                     <<ServiceName, DeploymentName>>, outcome))
       IN IF outcome = "found"
          THEN /\ ops' = Append(ops, Op(kind, DeploymentName, deps[DeploymentName], 0))
               /\ operation' = Len(ops) + 1
               /\ calls' = Append(got, Call(kind, <<ServiceName, DeploymentName,
                                                    RoleNamesOf(deps[DeploymentName])>>, "ok"))
               /\ pc' = "wait_poll"
               /\ ret' = next
               /\ UNCHANGED raised
          ELSE /\ calls' = got
               /\ raised' = Some(IF outcome = "missing" THEN MissingResource ELSE ProviderError)
               /\ pc' = OnRaise(pc)
               /\ UNCHANGED <<ops, operation, ret>>
  /\ UNCHANGED <<progVars, deployLocals, status, sshLocals, tdLocals, roles_todo,
                 svc, deps, disks, images, nextVm, phase, delays>>

Start == RolesOperation("start", "start_roles", "main_test_ssh")

MainStop ==
  /\ pc = "main_stop"
  /\ phase' = "stop"
  /\ pc' = IF ns.stop THEN "stop" ELSE "main_snapshot"
  /\ UNCHANGED <<progVars, ret, raised, calls, deployLocals, operation, status,
                 sshLocals, tdLocals, roles_todo, providerVars, nextVm, delays>>

Stop == RolesOperation("stop", "shutdown_roles", "main_snapshot")

(* ------------------------------- test_ssh ------------------------------ *)
MainTestSsh ==
  /\ pc = "main_test_ssh"
  /\ phase' = "test_ssh"
  /\ pc' = IF ns.test_ssh THEN "test_ssh" ELSE "main_stop"
  /\ UNCHANGED <<progVars, ret, raised, calls, deployLocals, operation, status,
                 sshLocals, tdLocals, roles_todo, providerVars, nextVm, delays>>

Target(name, host, port) == [name |-> name, host |-> host, port |-> port]

\* lines 286-290: the endpoints of one instance whose local port is 22
RECURSIVE EndpointTargets(_, _)
EndpointTargets(name, eps) ==
  IF eps = <<>> THEN <<>>
  ELSE (IF Head(eps).local_port = SshPort
        THEN <<Target(name, "vip", Head(eps).port)>> ELSE <<>>)
       \o EndpointTargets(name, Tail(eps))

\* lines 285-295, over deployment.role_instance_list
RECURSIVE SshTargets(_)
SshTargets(rs) ==
  IF rs = <<>> THEN <<>>
  ELSE EndpointTargets(Head(rs).role_name, Head(rs).endpoints)
       \o [k \in 1..Len(Head(rs).public_ips) |->
             Target(Head(rs).role_name, Head(rs).public_ips[k], SshPort)]
       \o SshTargets(Tail(rs))

\* test_ssh, lines 268-297
TestSsh ==
  /\ pc = "test_ssh"
  /\ \E outcome \in DeploymentLookups(DeploymentName) :
       /\ calls' = Append(calls, Call("get_deployment_by_name",
                                      <<ServiceName, DeploymentName>>, outcome))
       /\ IF outcome = "found"
          THEN /\ ssh_targets' = SshTargets(deps[DeploymentName])
               /\ initial_targets' = SshTargets(deps[DeploymentName])
               /\ pc' = "ssh_loop"
               /\ UNCHANGED raised
          ELSE /\ raised' = Some(IF outcome = "missing" THEN MissingResource ELSE ProviderError)
               /\ pc' = OnRaise(pc)
               /\ UNCHANGED sshLocals
  /\ UNCHANGED <<progVars, ret, deployLocals, operation, status, tdLocals, roles_todo,
                 providerVars, nextVm, phase, delays>>

\* the failed target is not put back
AfterProbe_Dropped(q, up) == Tail(q)

\* the failed target is put back at the front of the queue
AfterProbe_Front(q, up) == IF up THEN Tail(q) ELSE q

\* lines 301-306: the queue after the probe of its head answered `up'
AfterProbe(q, up) == IF up THEN Tail(q) ELSE Append(Tail(q), Head(q))

\* one iteration of the loop of lines 298-306
SshProbe ==
  /\ pc = "ssh_loop"
  /\ ssh_targets # <<>>
  /\ \E up \in {u \in BOOLEAN : (~u => delays > 0)
                                 /\ (u => Head(ssh_targets) \notin never.up)} :
       LET probed == Append(calls, Call("ssh_up", <<Head(ssh_targets)>>,
                                        IF up THEN "up" ELSE "down"))
       IN /\ ssh_targets' = AfterProbe(ssh_targets, up)
          /\ calls' = IF up THEN probed ELSE Append(probed, Call("sleep", <<SshSleep>>, "ok"))
          /\ delays' = IF up THEN delays ELSE delays - 1
  /\ UNCHANGED <<progVars, pc, ret, raised, deployLocals, operation, status,
                 initial_targets, tdLocals, roles_todo, providerVars, nextVm, phase>>

\* line 298: the loop ends on an empty queue
SshReturn ==
  /\ pc = "ssh_loop"
  /\ ssh_targets = <<>>
  /\ pc' = "main_stop"
  /\ UNCHANGED <<progVars, ret, raised, calls, deployLocals, operation, status,
                 sshLocals, tdLocals, roles_todo, providerVars, nextVm, phase, delays>>

(* ------------------------------- snapshot ------------------------------ *)
MainSnapshot ==
  /\ pc = "main_snapshot"
  /\ phase' = "snapshot"
  /\ pc' = IF ns.snapshot_config THEN "snapshot" ELSE "main_teardown"
  /\ UNCHANGED <<progVars, ret, raised, calls, deployLocals, operation, status,
                 sshLocals, tdLocals, roles_todo, providerVars, nextVm, delays>>

\* snapshot, lines 365-373
Snapshot ==
  /\ pc = "snapshot"
  /\ \E outcome \in DeploymentLookups(DeploymentName) :
       /\ calls' = calls \o <<Call("create_container", <<"images">>, "ok"),
                              Call("get_deployment_by_name",
                                   <<ServiceName, DeploymentName>>, outcome)>>
       /\ IF outcome = "found"
          THEN /\ roles_todo' = RoleNamesOf(deps[DeploymentName])
               /\ pc' = "snap_loop"
               /\ UNCHANGED raised
          ELSE /\ raised' = Some(IF outcome = "missing" THEN MissingResource ELSE ProviderError)
               /\ pc' = OnRaise(pc)
               /\ UNCHANGED roles_todo
  /\ UNCHANGED <<progVars, ret, deployLocals, operation, status, sshLocals, tdLocals,
                 providerVars, nextVm, phase, delays>>

\* one iteration of the loop of lines 375-397, up to the wait
SnapshotRole ==
  /\ pc = "snap_loop"
  /\ IF roles_todo = <<>>
     THEN /\ pc' = "main_teardown"
          /\ UNCHANGED <<roles_todo, calls, ops, operation, ret>>
     ELSE /\ roles_todo' = Tail(roles_todo)
          /\ calls' = calls \o <<Call("copy_blob", <<Head(roles_todo)>>, "ok"),
                                 Call("add_os_image", <<Head(roles_todo)>>, "ok")>>
          /\ ops' = Append(ops, Op("add_os_image", DeploymentName, <<>>, Head(roles_todo)))
          /\ operation' = Len(ops) + 1
          /\ pc' = "wait_poll"
          /\ ret' = "snap_loop"
  /\ UNCHANGED <<progVars, raised, deployLocals, status, sshLocals, tdLocals,
                 svc, deps, disks, images, nextVm, phase, delays>>

(* ------------------------------- teardown ------------------------------ *)
MainTeardown ==
  /\ pc = "main_teardown"
  /\ phase' = "teardown"
  /\ pc' = IF ns.teardown THEN "teardown" ELSE "done"
  /\ UNCHANGED <<progVars, ret, raised, calls, deployLocals, operation, status,
                 sshLocals, tdLocals, roles_todo, providerVars, nextVm, delays>>

\* service.deployments as get_hosted_service_properties(embed_detail) lists them
ServiceDeployments ==
  LET one(d) == IF deps[d] = <<>> THEN <<>> ELSE <<[name |-> d, role_list |-> deps[d]]>>
  IN one("d1") \o one("d2")

\* the reference to a disk held by a role: it has a disk_name but no name
DiskRef(n) == [disk_name |-> n]

\* what get_disk returns
Disk(n, a) == [name |-> n, attached_to |-> a]

HasAttr(x, f) == f \in DOMAIN x

\* only the OS disk of every role is collected
RECURSIVE CollectDisks_OsOnly(_)
CollectDisks_OsOnly(rs) ==
  IF rs = <<>> THEN <<>>
  ELSE <<DiskRef(RoleDisks(Head(rs))[1])>> \o CollectDisks_OsOnly(Tail(rs))

\* lines 322-324: the OS disk then the data disks of every role
RECURSIVE CollectDisks(_)
CollectDisks(rs) ==
  IF rs = <<>> THEN <<>>
  ELSE [k \in 1..Len(RoleDisks(Head(rs))) |-> DiskRef(RoleDisks(Head(rs))[k])]
       \o CollectDisks(Tail(rs))

\* the fetched disk loses its attachment field when it is taken from the queue
Normalise_Strip(c) == [disk_name |-> (IF HasAttr(c, "name") THEN c.name ELSE c.disk_name),
                       name |-> (IF HasAttr(c, "name") THEN c.name ELSE c.disk_name)]

\* lines 335-337
Normalise(c) ==
  IF HasAttr(c, "name") THEN c ELSE [disk_name |-> c.disk_name, name |-> c.disk_name]

\* the attachment check is lost: every fetched disk is taken as unattached
StillAttached_Ignored(real_disk) == FALSE

\* line 350
StillAttached(real_disk) == real_disk.attached_to # None

\* what get_disk may report for an existing disk: a disk whose role is gone is
\* detached by the provider at some time of its choosing, and stays detached;
\* the disks of never.detached are reported attached for ever
DiskAnswers(n) ==
  IF disks[n] = None THEN {None}
  ELSE {a \in {None, disks[n]} :
          /\ a = None => disks[n][1] \notin RoleNames /\ n \notin never.detached
          /\ a # None => delays > 0}

\* the missing service is not caught as the end of teardown
AfterServiceLookup_Proceed(found) == "td_dep"

\* lines 311-315: an absent service ends teardown
AfterServiceLookup(found) == IF found THEN "td_dep" ELSE "done"

\* the attached disk is not queued again
Requeue_Dropped(rest, real_disk) == rest

\* line 352
Requeue(rest, real_disk) == Append(rest, real_disk)

\* teardown, lines 311-315
Teardown ==
  /\ pc = "teardown"
  /\ calls' = Append(calls, Call("get_hosted_service_properties", <<ServiceName>>,
                                 IF svc THEN "found" ELSE "missing"))
  /\ td_deployments' = ServiceDeployments
  /\ pc' = AfterServiceLookup(svc)
  /\ UNCHANGED <<progVars, ret, raised, deployLocals, operation, status, sshLocals,
                 disks_to_delete, collected, roles_todo, providerVars, nextVm, phase, delays>>

\* lines 317-330: the next deployment, up to the wait on its deletion
TdDeployment ==
  /\ pc = "td_dep"
  /\ td_deployments # <<>>
  /\ LET deployment == Head(td_deployments)
         refs == CollectDisks(deployment.role_list)
     IN /\ disks_to_delete' = refs
        /\ collected' = collected \o [k \in 1..Len(refs) |-> refs[k].disk_name]
        /\ ops' = Append(ops, Op("delete_deployment", deployment.name, <<>>, 0))
        /\ calls' = Append(calls, Call("delete_deployment",
                                       <<ServiceName, deployment.name>>, "ok"))
  /\ td_deployments' = Tail(td_deployments)
  /\ operation' = Len(ops) + 1
  /\ pc' = "wait_poll"
  /\ ret' = "td_disks"
  /\ UNCHANGED <<progVars, raised, deployLocals, status, sshLocals, roles_todo,
                 svc, deps, disks, images, nextVm, phase, delays>>

\* one iteration of the loop of lines 332-358; the second argument of
\* delete_disk is delete_vhd
TdDisk ==
  /\ pc = "td_disks"
  /\ disks_to_delete # <<>>
  /\ LET candidate == Normalise(Head(disks_to_delete))
         rest == Tail(disks_to_delete)
         paced == IF HasAttr(candidate, "attached_to")
                  THEN Append(calls, Call("sleep", <<DiskSleep>>, "ok")) ELSE calls
     IN IF candidate.name \notin DOMAIN disks
        THEN /\ calls' = Append(paced, Call("get_disk", <<candidate.name>>, "missing"))
             /\ raised' = Some(MissingResource)
             /\ pc' = OnRaise(pc)
             /\ UNCHANGED <<disks_to_delete, disks, delays>>
        ELSE \E a \in DiskAnswers(candidate.name) :
               LET real_disk == Disk(candidate.name, a)
                   got == Append(paced, Call("get_disk", <<candidate.name>>,
                                             IF a = None THEN "unattached" ELSE "attached"))
               IN IF StillAttached(real_disk)
                  THEN /\ disks_to_delete' = Requeue(rest, real_disk)
                       /\ calls' = got
                       /\ delays' = IF a = None THEN delays ELSE delays - 1
                       /\ disks' = [disks EXCEPT ![candidate.name] = a]
                       /\ UNCHANGED <<raised, pc>>
                  ELSE /\ disks_to_delete' = rest
                       /\ delays' = IF a = None THEN delays ELSE delays - 1
                       /\ IF a = None
                          THEN /\ calls' = Append(got, Call("delete_disk", <<real_disk.name, TRUE>>, "ok"))
                               /\ disks' = [n \in DOMAIN disks \ {real_disk.name} |-> disks[n]]
                               /\ UNCHANGED <<raised, pc>>
                          ELSE /\ calls' = Append(got, Call("delete_disk", <<real_disk.name, TRUE>>, "error"))
                               /\ raised' = Some(ProviderError)
                               /\ pc' = OnRaise(pc)
                               /\ UNCHANGED disks
  /\ UNCHANGED <<progVars, ret, deployLocals, operation, status, sshLocals,
                 td_deployments, collected, roles_todo, svc, deps, images, ops, nextVm, phase>>

\* line 332: the disk queue of the deployment is empty
TdDisksDone ==
  /\ pc = "td_disks"
  /\ disks_to_delete = <<>>
  /\ pc' = "td_dep"
  /\ UNCHANGED <<progVars, ret, raised, calls, deployLocals, operation, status,
                 sshLocals, tdLocals, roles_todo, providerVars, nextVm, phase, delays>>

\* lines 361-362
TdDeleteService ==
  /\ pc = "td_dep"
  /\ td_deployments = <<>>
  /\ calls' = Append(calls, Call("delete_hosted_service", <<ServiceName>>, "ok"))
  /\ svc' = FALSE
  /\ pc' = "done"
  /\ UNCHANGED <<progVars, ret, raised, deployLocals, operation, status, sshLocals,
                 tdLocals, roles_todo, deps, disks, images, ops, nextVm, phase, delays>>

(* ------------------------------ the program ---------------------------- *)
Flags(p, s, t, o, n, d) ==
  [vm_config |-> p, start |-> s, test_ssh |-> t, stop |-> o,
   snapshot_config |-> n, teardown |-> d]

AllFlags == [vm_config : BOOLEAN, start : BOOLEAN, test_ssh : BOOLEAN, stop : BOOLEAN,
             snapshot_config : BOOLEAN, teardown : BOOLEAN]

\* roles first..last of a service that exists before the run
PreRoles(first, last, nd) ==
  [i \in 1..(last - first + 1) |->
     Role(first + i - 1, NetworkConfiguration(<<SshNat>>, <<PortHi - 1>>), nd, nd)]

PreDisks(n, nd) ==
  [d \in {<<r, k>> : r \in 1..n, k \in 0..nd} |-> Some(d[1])]

\* provider states a run can start from: no service, or a service whose
\* deployments d1 and d2 hold k1 and k2 roles
PreStates ==
  {[svc |-> FALSE, deps |-> [d \in DeploymentNames |-> <<>>], disks |-> <<>>, roles |-> 0]}
    \cup {[svc |-> TRUE,
           deps |-> [d \in DeploymentNames |->
                       IF d = "d1" THEN PreRoles(1, k1, nd) ELSE PreRoles(k1 + 1, k1 + k2, nd)],
           disks |-> PreDisks(k1 + k2, nd), roles |-> k1 + k2] :
            k1 \in 0..MaxPreRoles, k2 \in 0..MaxPreRoles, nd \in 0..MaxDataDisks}

ProviderState == [svc |-> svc, deps |-> deps, disks |-> disks]

InitBase(flags, pre, templates, batch) ==
  /\ ns \in flags
  /\ n_vms \in batch
  /\ vm_config \in templates
  /\ pc = "main_provision"
  /\ ret = "none"
  /\ raised = None
  /\ calls = <<>>
  /\ started = 0
  /\ vm = [name |-> 0, endpoints |-> <<>>, method |-> "none"]
  /\ operation = 0
  /\ status = [status |-> "none", error |-> None]
  /\ ssh_targets = <<>>
  /\ initial_targets = <<>>
  /\ td_deployments = <<>>
  /\ disks_to_delete = <<>>
  /\ collected = <<>>
  /\ roles_todo = <<>>
  /\ \E p \in pre :
       /\ svc = p.svc
       /\ deps = p.deps
       /\ disks = p.disks
       /\ nextVm = p.roles + 1
       /\ at_start = <<[svc |-> p.svc, deps |-> p.deps, disks |-> p.disks]>>
  /\ images = {}
  /\ ops = <<>>
  /\ phase = "none"
  /\ runs = 1
  /\ delays = MaxDelays

\* at most one element of S
AtMostOne(S) == {{}} \cup {{x} : x \in S}

\* a flow that has not called deploy_vm
IdleFlow ==
  [pc |-> "idle", vm |-> [name |-> 0, endpoints |-> <<>>, method |-> "none"],
   operation |-> 0, status |-> [status |-> "none", error |-> None], raised |-> None]

\* main is the only caller of deploy_vm
NoFlows ==
  /\ flows = [f \in Flows |-> IdleFlow]
  /\ serialized = FALSE

\* an environment in which every target comes up and every disk gets detached
InitWith(flags, pre, templates, batch) ==
  /\ InitBase(flags, pre, templates, batch)
  /\ never = [up |-> {}, detached |-> {}]
  /\ NoFlows

\* the program is invoked again with the same command line
Rerun ==
  /\ pc = "done"
  /\ runs < MaxRuns
  /\ runs' = runs + 1
  /\ at_start' = Append(at_start, ProviderState)
  /\ pc' = "main_provision"
  /\ ret' = "none"
  /\ calls' = <<>>
  /\ started' = 0
  /\ vm' = [name |-> 0, endpoints |-> <<>>, method |-> "none"]
  /\ operation' = 0
  /\ status' = [status |-> "none", error |-> None]
  /\ ssh_targets' = <<>>
  /\ initial_targets' = <<>>
  /\ td_deployments' = <<>>
  /\ disks_to_delete' = <<>>
  /\ collected' = <<>>
  /\ roles_todo' = <<>>
  /\ phase' = "none"
  /\ UNCHANGED <<ns, n_vms, vm_config, never, flows, serialized, raised, providerVars,
                 nextVm, delays>>

(* the whole workflow, under every command line *)
WorkflowPre == {p \in PreStates : p.roles = 0}

Init == InitWith(AllFlags, WorkflowPre, {Template(<<HttpNat, SshNat>>, 1, 0)}, 1..MaxVms)

Next ==
  \/ MainProvision \/ CreateHostedService \/ Batch \/ DvBuild \/ DvGet \/ DvSubmit
  \/ WaitPoll
  \/ MainStart \/ Start
  \/ MainTestSsh \/ TestSsh \/ SshProbe \/ SshReturn
  \/ MainStop \/ Stop
  \/ MainSnapshot \/ Snapshot \/ SnapshotRole
  \/ MainTeardown \/ Teardown \/ TdDeployment \/ TdDisk \/ TdDisksDone \/ TdDeleteService

Spec == Init /\ [][Next]_vars

(* --provision alone *)
InitProvision ==
  InitWith({Flags(TRUE, FALSE, FALSE, FALSE, FALSE, FALSE)}, PreStates,
           Templates \cup BadTemplates, 1..MaxVms)

NextProvision ==
  \/ MainProvision \/ CreateHostedService \/ Batch \/ DvBuild \/ DvGet \/ DvSubmit
  \/ WaitPoll
  \/ MainStart \/ MainTestSsh \/ MainStop \/ MainSnapshot \/ MainTeardown

SpecProvision == InitProvision /\ [][NextProvision]_vars

(* --test-ssh alone *)
InitSsh ==
  /\ InitBase({Flags(FALSE, FALSE, TRUE, FALSE, FALSE, FALSE)}, PreStates,
              {Template(<<>>, 0, 0)}, {1})
  /\ never \in [up : AtMostOne(SeqToSet(SshTargets(deps[DeploymentName]))),
                 detached : {{}}]
  /\ NoFlows

NextSsh ==
  \/ MainProvision \/ MainStart
  \/ MainTestSsh \/ TestSsh \/ SshProbe \/ SshReturn
  \/ MainStop \/ MainSnapshot \/ MainTeardown

SpecSsh == InitSsh /\ [][NextSsh]_vars

\* the process keeps running: main is one sequential thread that nothing
\* suspends
SpecSshFair == SpecSsh /\ WF_vars(NextSsh)

(* --teardown alone, the program being invoked up to MaxRuns times *)
InitTeardown ==
  /\ InitBase({Flags(FALSE, FALSE, FALSE, FALSE, FALSE, TRUE)}, PreStates,
              {Template(<<>>, 0, 0)}, {1})
  /\ never \in [up : {{}}, detached : AtMostOne(DOMAIN disks)]
  /\ NoFlows

NextTeardown ==
  \/ MainProvision \/ MainStart \/ MainTestSsh \/ MainStop \/ MainSnapshot
  \/ MainTeardown \/ Teardown \/ TdDeployment \/ TdDisk \/ TdDisksDone \/ TdDeleteService
  \/ WaitPoll
  \/ Rerun

SpecTeardown == InitTeardown /\ [][NextTeardown]_vars

\* the process keeps running: teardown is one sequential thread that nothing
\* suspends
SpecTeardownFair == SpecTeardown /\ WF_vars(NextTeardown)

(* deploy_vm called by several flows on the same (service, deployment) pair, *)
(* the deployment being absent at first; the statements of one flow are      *)
(* those of DvBuild, DvGet, DvSubmit and WaitPoll, on the flow's own locals   *)
FlowCall(f, op, arg, res) ==
  [op |-> op, arg |-> arg, res |-> res, phase |-> "provision", iter |-> f]

FlowOver(f) == flows[f].pc \in {"returned", "raised"}

\* deploy_vm, lines 87-230: the container and the configuration of the VM; a
\* caller that serializes starts a flow only when no other is under way
FlowBuild(f) ==
  /\ flows[f].pc = "idle"
  /\ serialized => \A g \in Flows \ {f} : flows[g].pc = "idle" \/ FlowOver(g)
  /\ calls' = Append(calls, FlowCall(f, "create_container", <<"vhds">>, "ok"))
  /\ \E rnd \in [NonLb(vm_config.nat_ports) -> RandomPorts] :
       flows' = [flows EXCEPT ![f].pc = "dv_get",
                              ![f].vm = [name |-> nextVm + f - 1,
                                         endpoints |-> NetworkConfiguration(vm_config.nat_ports, rnd),
                                         method |-> "none"]]
  /\ UNCHANGED <<ns, n_vms, vm_config, runs, at_start, never, serialized, pc, ret, raised,
                 deployLocals, operation, status, sshLocals, tdLocals, roles_todo,
                 providerVars, nextVm, phase, delays>>

\* deploy_vm, lines 239-260
FlowGet(f) ==
  /\ flows[f].pc = "dv_get"
  /\ \E outcome \in DeploymentLookups(DeploymentName) :
       /\ calls' = Append(calls, FlowCall(f, "get_deployment_by_name",
                                          <<ServiceName, DeploymentName>>, outcome))
       /\ flows' = IF Resolve(outcome) = "raise"
                   THEN [flows EXCEPT ![f].pc = "raised", ![f].raised = Some(ProviderError)]
                   ELSE [flows EXCEPT ![f].pc = "dv_submit", ![f].vm.method = Resolve(outcome)]
  /\ UNCHANGED <<ns, n_vms, vm_config, runs, at_start, never, serialized, pc, ret, raised,
                 deployLocals, operation, status, sshLocals, tdLocals, roles_todo,
                 providerVars, nextVm, phase, delays>>

\* deploy_vm, lines 263-264
FlowSubmit(f) ==
  /\ flows[f].pc = "dv_submit"
  /\ ops' = Append(ops, Op(flows[f].vm.method, DeploymentName,
                           <<Role(flows[f].vm.name, flows[f].vm.endpoints,
                                  vm_config.data_disks, vm_config.public_ips)>>, 0))
  /\ calls' = Append(calls, FlowCall(f, flows[f].vm.method,
                                     <<ServiceName, DeploymentName, flows[f].vm.name>>, "ok"))
  /\ flows' = [flows EXCEPT ![f].pc = "wait_poll", ![f].operation = Len(ops) + 1]
  /\ UNCHANGED <<ns, n_vms, vm_config, runs, at_start, never, serialized, pc, ret, raised,
                 deployLocals, operation, status, sshLocals, tdLocals, roles_todo,
                 svc, deps, disks, images, nextVm, phase, delays>>

\* wait_for_operation, lines 48-62, called at line 264
FlowWait(f) ==
  /\ flows[f].pc = "wait_poll"
  /\ \E st \in StatusAnswers(flows[f].operation) :
       LET rid == flows[f].operation
           o == ops[rid]
           resolved == o.status.status = "InProgress" /\ st.status = "Succeeded"
           polled == Append(calls, FlowCall(f, "get_operation_status", <<rid>>, st.status))
       IN /\ ops' = [ops EXCEPT ![rid].status = st]
          /\ deps' = IF resolved THEN DepsAfter(o) ELSE deps
          /\ disks' = IF resolved THEN DisksAfter(o) ELSE disks
          /\ delays' = IF st.status = "InProgress" THEN delays - 1 ELSE delays
          /\ IF ~WaitDone(st)
             THEN /\ calls' = Append(polled, FlowCall(f, "sleep", <<OpSleep>>, "ok"))
                  /\ flows' = [flows EXCEPT ![f].status = st]
             ELSE /\ calls' = polled
                  /\ flows' = IF WaitRaises(st)
                              THEN [flows EXCEPT ![f].status = st, ![f].pc = "raised",
                                                 ![f].raised = Some(OperationFailed(
                                                     st.error[1].code, st.error[1].message))]
                              ELSE [flows EXCEPT ![f].status = st, ![f].pc = "returned"]
  /\ UNCHANGED <<ns, n_vms, vm_config, runs, at_start, never, serialized, pc, ret, raised,
                 deployLocals, operation, status, sshLocals, tdLocals, roles_todo,
                 svc, images, nextVm, phase>>

\* the service exists (main created it, line 448) and holds no deployment
AbsentDeployment == {p \in PreStates : p.svc /\ p.roles = 0}

InitConcurrent ==
  /\ InitBase({Flags(TRUE, FALSE, FALSE, FALSE, FALSE, FALSE)}, AbsentDeployment,
              {Template(<<SshNat>>, 0, 0)}, {1})
  /\ never = [up |-> {}, detached |-> {}]
  /\ flows = [f \in Flows |-> IdleFlow]
  /\ serialized \in BOOLEAN

NextConcurrent ==
  \E f \in Flows : FlowBuild(f) \/ FlowGet(f) \/ FlowSubmit(f) \/ FlowWait(f)

SpecConcurrent == InitConcurrent /\ [][NextConcurrent]_vars

(* ============================== properties ============================= *)
Idx(q) == 1..Len(q)

IsSubmit(c) == c.op \in {"create_virtual_machine_deployment", "add_role"}

IsLookup(c) == c.op = "get_deployment_by_name" /\ c.phase = "provision"

Count(q, T(_)) == Cardinality({i \in Idx(q) : T(q[i])})

\* the run is past test_ssh without an exception
SshReturned == ns.test_ssh /\ pc \in {"main_stop", "main_snapshot", "main_teardown", "done"}

\* the disks referenced by the roles of the deployments of a provider state
ReferencedDisks(p) ==
  UNION {SeqToSet(RoleDisks(r)) : r \in UNION {SeqToSet(p.deps[d]) : d \in DeploymentNames}}

Deleted(n) == /\ n \notin DOMAIN disks
              /\ Cardinality({i \in Idx(calls) :
                    calls[i].op = "delete_disk" /\ calls[i].arg[1] = n}) = 1

(* C1: every delete_disk(d) immediately follows, among the provider calls, a  *)
(* get_disk(d) of the same disk that reported it unattached.                  *)
C1_DeleteFollowsUnattachedFetch ==
  LET P == ProviderCalls
  IN \A i \in Idx(P) :
       P[i].op = "delete_disk" =>
         /\ i > 1
         /\ P[i - 1].op = "get_disk"
         /\ P[i - 1].arg = <<P[i].arg[1]>>
         /\ P[i - 1].res = "unattached"

\* a disk was deleted that an earlier fetch had reported attached
C1_Witness ==
  \E i, j \in Idx(calls) :
    /\ i < j
    /\ calls[i].op = "get_disk" /\ calls[i].res = "attached"
    /\ calls[j].op = "delete_disk" /\ calls[j].arg[1] = calls[i].arg[1]

(* C2: in deploy_vm the creation of the deployment is submitted if and only   *)
(* if the lookup of that (service, deployment) pair answered "missing": the   *)
(* provider call after a "missing" lookup is the creation for the same pair,  *)
(* and every creation directly follows a "missing" lookup of its pair.        *)
C2_CreateIffMissing ==
  LET P == ProviderCalls
  IN /\ \A i \in Idx(P) :
          P[i].op = "create_virtual_machine_deployment" =>
            /\ i > 1
            /\ IsLookup(P[i - 1])
            /\ P[i - 1].res = "missing"
            /\ P[i - 1].arg = <<P[i].arg[1], P[i].arg[2]>>
     /\ \A i \in Idx(P) :
          (IsLookup(P[i]) /\ P[i].res = "missing") =>
            IF i = Len(P)
            THEN pc = "dv_submit" /\ vm.method = "create_virtual_machine_deployment"
            ELSE /\ P[i + 1].op = "create_virtual_machine_deployment"
                 /\ P[i].arg = <<P[i + 1].arg[1], P[i + 1].arg[2]>>

\* a deployment was created after a "missing" lookup, and a later lookup of
\* the same batch ended in a transient error
C2_Witness ==
  /\ \E i \in Idx(calls) : calls[i].op = "create_virtual_machine_deployment"
  /\ \E i \in Idx(calls) : IsLookup(calls[i]) /\ calls[i].res = "error"

(* C3: once the awaited operation is polled as Failed, wait_for_operation has *)
(* raised OperationFailed with the code and message the provider holds for    *)
(* that operation, the run did not continue at the caller, and the exception  *)
(* is at the top level as raised.                                             *)
C3_FailedRaises ==
  status.status = "Failed" =>
    /\ pc = "aborted"
    /\ raised = Some(OperationFailed(ops[operation].status.error[1].code,
                                     ops[operation].status.error[1].message))

\* a deletion of a deployment failed with a conflict
C3_Witness ==
  /\ status.status = "Failed"
  /\ ops[operation].kind = "delete_deployment"
  /\ raised # None /\ raised[1].code = "ConflictError"

(* C4: test_ssh has returned only if every target of the initial list has     *)
(* had a probe that answered up.                                              *)
C4_ReturnedOnlyWhenAllUp ==
  SshReturned =>
    \A k \in Idx(initial_targets) :
      \E i \in Idx(calls) :
        /\ calls[i].op = "ssh_up"
        /\ calls[i].arg = <<initial_targets[k]>>
        /\ calls[i].res = "up"

\* the loop returned for several targets after some probe had failed
C4_Witness ==
  /\ SshReturned
  /\ Len(initial_targets) >= 2
  /\ \E i \in Idx(calls) : calls[i].op = "ssh_up" /\ calls[i].res = "down"

(* C5: a run of teardown that found the service absent issues the lookup of   *)
(* the service and nothing else, raises nothing, and leaves the provider as   *)
(* it was when the run began; this holds of a second run as of the first.     *)
C5_AbsentServiceNoOp ==
  ~at_start[runs].svc =>
    /\ raised = None
    /\ ProviderState = at_start[runs]
    /\ \A i \in Idx(calls) :
         /\ calls[i].op = "get_hosted_service_properties"
         /\ calls[i].res = "missing"
         /\ i = 1
    /\ pc = "done" => Len(calls) = 1

\* the second of two runs on an absent service has returned
C5_Witness ==
  /\ runs = 2
  /\ ~at_start[1].svc /\ ~at_start[2].svc
  /\ pc = "done"
  /\ Len(calls) = 1

(* C6: when teardown of an existing service has returned, every disk          *)
(* referenced by a role of one of its deployments has been deleted exactly    *)
(* once, right after a fetch that reported it unattached; and the disk loop   *)
(* of a deployment is left only with every disk collected so far deleted.     *)
C6_AllDisksDeletedOnce ==
  /\ (pc = "done" /\ at_start[runs].svc) =>
       \A n \in ReferencedDisks(at_start[runs]) :
         /\ Deleted(n)
         /\ \E i \in Idx(calls) :
              /\ i > 1
              /\ calls[i].op = "delete_disk" /\ calls[i].arg[1] = n
              /\ calls[i - 1].op = "get_disk" /\ calls[i - 1].arg = <<n>>
              /\ calls[i - 1].res = "unattached"
  /\ pc = "td_dep" => \A k \in Idx(collected) : Deleted(collected[k])

\* teardown returned after deleting the disks of two deployments, one of
\* them having been reported attached at first
C6_Witness ==
  /\ pc = "done" /\ at_start[runs].svc
  /\ Cardinality(ReferencedDisks(at_start[runs])) >= 3
  /\ at_start[runs].deps["d1"] # <<>> /\ at_start[runs].deps["d2"] # <<>>
  /\ \E i \in Idx(calls) : calls[i].op = "get_disk" /\ calls[i].res = "attached"

(* C7: in a batch on a deployment absent at first, the creation of the        *)
(* deployment is submitted by the first deploy_vm and by no other, every      *)
(* later deploy_vm submits add_role, a completed batch of N has submitted N   *)
(* times; and the deployment comes to exist only by the success of that       *)
(* creation and ceases to exist only by the success of a delete_deployment.   *)
C7_Submits ==
  /\ \A i \in Idx(calls) :
       IsSubmit(calls[i]) =>
         (calls[i].op = "create_virtual_machine_deployment" <=> calls[i].iter = 1)
  /\ (ns.vm_config /\ phase # "provision" /\ phase # "none") =>
       /\ Count(calls, IsSubmit) = n_vms
       /\ \A k \in 1..n_vms : \E i \in Idx(calls) : IsSubmit(calls[i]) /\ calls[i].iter = k

C7_FirstCreatesRestAdd ==
  /\ []C7_Submits
  /\ [][/\ (deps[DeploymentName] = <<>> /\ deps'[DeploymentName] # <<>>) =>
             /\ ops[operation].kind = "create_virtual_machine_deployment"
             /\ started = 1
        /\ (deps[DeploymentName] # <<>> /\ deps'[DeploymentName] = <<>>) =>
             ops[operation].kind = "delete_deployment"]_vars

\* a batch of two completed: a creation, then an add_role
C7_Witness ==
  /\ pc = "done" /\ n_vms = 2 /\ raised = None
  /\ Count(calls, IsSubmit) = 2
  /\ \E i \in Idx(calls) : calls[i].op = "add_role" /\ calls[i].iter = 2

(* C8: a failure during the provisioning of a VM (the lookup of the           *)
(* deployment errors, or the awaited operation fails) is the last call of the *)
(* run: the exception is at the top level and no call follows, neither for    *)
(* the remaining VMs of the batch nor for a later phase.                      *)
C8_FailureEndsRun ==
  \A i \in Idx(calls) :
    (calls[i].phase = "provision" /\ calls[i].res \in {"error", "Failed"}) =>
      /\ i = Len(calls)
      /\ pc = "aborted"
      /\ raised # None
      /\ started = calls[i].iter

\* the first VM of a batch of two failed, a teardown having been asked for
C8_Witness ==
  /\ raised # None /\ phase = "provision"
  /\ started = 1 /\ n_vms = 2
  /\ ns.teardown /\ ns.start

(* C9 as stated: after any outcome of the lookup other than "missing",        *)
(* add_role is selected and submitted.                                        *)
C9_Original ==
  LET P == ProviderCalls
  IN \A i \in Idx(P) :
       (IsLookup(P[i]) /\ P[i].res # "missing") =>
         IF i = Len(P) THEN pc = "dv_submit" /\ vm.method = "add_role"
         ELSE P[i + 1].op = "add_role"

(* C9, amended: a found deployment selects add_role, which is submitted; an   *)
(* error of the lookup other than "missing" leaves deploy_vm as an exception  *)
(* and nothing is submitted.                                                  *)
C9_FoundAddsErrorRaises ==
  LET P == ProviderCalls
  IN \A i \in Idx(P) :
       /\ (IsLookup(P[i]) /\ P[i].res = "found") =>
            IF i = Len(P) THEN pc = "dv_submit" /\ vm.method = "add_role"
            ELSE P[i + 1].op = "add_role"
       /\ (IsLookup(P[i]) /\ P[i].res = "error") =>
            /\ i = Len(P)
            /\ pc = "aborted"
            /\ raised = Some(ProviderError)

\* a VM was added to a found deployment, then the lookup for the next errored
C9_Witness ==
  /\ \E i \in Idx(calls) : calls[i].op = "add_role"
  /\ calls # <<>> /\ IsLookup(calls[Len(calls)]) /\ calls[Len(calls)].res = "error"
  /\ pc = "aborted"

(* C10 as stated: two VMs of a batch never get the same public port for a     *)
(* NAT port of the template that is not load-balanced.                        *)
C10_DistinctPorts ==
  \A i, j \in Idx(ops) :
    (i # j /\ ops[i].kind \in {"create_virtual_machine_deployment", "add_role"}
           /\ ops[j].kind \in {"create_virtual_machine_deployment", "add_role"}) =>
      \A k \in NonLb(vm_config.nat_ports) :
        ops[i].roles[1].endpoints[k].port # ops[j].roles[1].endpoints[k].port

\* the operations that carry the configuration of a VM
VmOps == {i \in Idx(ops) : ops[i].kind \in {"create_virtual_machine_deployment", "add_role"}}

(* C11: every VM submitted by the batch has, for each NAT port of the         *)
(* template marked load-balanced, an input endpoint whose public port is the  *)
(* declared port and whose endpoint set is named "lb-" followed by the name   *)
(* of the port; so all the VMs share that set name and that port.             *)
C11_LoadBalancedEndpoints ==
  \A i \in VmOps :
    \A k \in Idx(vm_config.nat_ports) :
      vm_config.nat_ports[k].lb =>
        LET e == ops[i].roles[1].endpoints[k]
        IN /\ e.name = vm_config.nat_ports[k].name
           /\ e.port = vm_config.nat_ports[k].port
           /\ e.load_balanced_endpoint_set_name = <<"lb-" \o vm_config.nat_ports[k].name>>
           /\ \A j \in VmOps :
                /\ ops[j].roles[1].endpoints[k].port = e.port
                /\ ops[j].roles[1].endpoints[k].load_balanced_endpoint_set_name
                     = e.load_balanced_endpoint_set_name

\* two VMs were submitted from a template with the load-balanced port 80
C11_Witness ==
  /\ Cardinality(VmOps) = 2
  /\ \E k \in Idx(vm_config.nat_ports) :
       /\ vm_config.nat_ports[k].lb
       /\ \A i \in VmOps :
            /\ ops[i].roles[1].endpoints[k].port = 80
            /\ ops[i].roles[1].endpoints[k].load_balanced_endpoint_set_name = <<"lb-http">>

(* C15 as stated: every public port given to a NAT port that is not           *)
(* load-balanced lies in 4096..65535.                                         *)
C15_PortRange ==
  \A i \in VmOps :
    \A k \in NonLb(vm_config.nat_ports) :
      ops[i].roles[1].endpoints[k].port \in 4096..65535

(* C14 as stated: when the run is aborted by a configuration error of the VM  *)
(* template (a missing field, a missing substitution key), no provider call,  *)
(* neither of the service management nor of the storage, has been issued.     *)
C14_NoCallBeforeConfigError ==
  (raised # None /\ raised[1].type \in {"AttributeError", "KeyError"}) =>
    ProviderCalls = <<>>

\* the positions in the trace of the polls of request id rid
Polls(rid) ==
  {i \in Idx(calls) : calls[i].op = "get_operation_status" /\ calls[i].arg = <<rid>>}

(* C16: wait_for_operation has neither returned nor raised while the last     *)
(* polled status is InProgress; every poll of a handle but its last answered  *)
(* InProgress, so that no poll follows the first one that did not; and the    *)
(* run went on past a wait only if its last poll answered Succeeded.          *)
C16_PollsUntilTerminal ==
  /\ status.status = "InProgress" => pc = "wait_poll"
  /\ \A rid \in Idx(ops) :
       \A i, j \in Polls(rid) : i < j => calls[i].res = "InProgress"
  /\ \A rid \in Idx(ops) :
       (rid < operation \/ (rid = operation /\ pc \notin {"wait_poll", "aborted"})) =>
         /\ Polls(rid) # {}
         /\ \E i \in Polls(rid) :
              /\ calls[i].res = "Succeeded"
              /\ \A j \in Polls(rid) : j <= i

\* an operation was polled InProgress, then Succeeded, and the run went on
C16_Witness ==
  /\ operation > 0
  /\ pc \notin {"wait_poll", "aborted"}
  /\ Cardinality(Polls(operation)) >= 2
  /\ status.status = "Succeeded"

\* the get_disk calls of the run for disk n, and those among the first k entries
Fetches(n) == {i \in Idx(calls) : calls[i].op = "get_disk" /\ calls[i].arg = <<n>>}

FetchesUpTo(n, k) == {i \in Fetches(n) : i <= k}

DiskDeletes(n) == {i \in Idx(calls) : calls[i].op = "delete_disk" /\ calls[i].arg[1] = n}

IsPace(c) == c.op = "sleep" /\ c.arg = <<DiskSleep>>

\* the first three fetches of n are f1 < f2 < f3, answered attached, attached
\* and unattached
AttachedTwiceThenFree(n, f1, f2, f3) ==
  /\ f1 < f2 /\ f2 < f3
  /\ FetchesUpTo(n, f3) = {f1, f2, f3}
  /\ calls[f1].res = "attached" /\ calls[f2].res = "attached"
  /\ calls[f3].res = "unattached"

\* C12: a disk that the provider reports attached on its first two fetches and
\* unattached on the third is fetched exactly three times; the entry just
\* before the third fetch is a sleep of 10 seconds that comes after the second
\* fetch (the only entry between the two when the disk is the only one of the
\* service); the third fetch is followed at once by delete_disk of that disk
\* with delete_vhd set, which is the only delete_disk of the disk, and no fetch
\* of the disk comes after it.
C12_ThreeFetchesPacedThenDelete ==
  \A n \in SeqToSet(collected) : \A f1, f2, f3 \in Fetches(n) :
    AttachedTwiceThenFree(n, f1, f2, f3) =>
      /\ Fetches(n) = {f1, f2, f3}
      /\ f2 < f3 - 1 /\ IsPace(calls[f3 - 1])
      /\ Len(collected) = 1 =>
            f3 = f2 + 2 /\ Cardinality({i \in f1..f3 : IsPace(calls[i])}) = 2
      /\ Len(calls) > f3
      /\ calls[f3 + 1].op = "delete_disk" /\ calls[f3 + 1].arg = <<n, TRUE>>
      /\ DiskDeletes(n) = {f3 + 1}

\* a service of one disk was torn down; its disk was reported attached twice,
\* then unattached, and deleted
C12_Witness ==
  /\ pc = "done" /\ Len(collected) = 1
  /\ \E f1, f2, f3 \in Fetches(collected[1]) :
       /\ AttachedTwiceThenFree(collected[1], f1, f2, f3)
       /\ DiskDeletes(collected[1]) # {}

\* the disks of the roles that deployment d held when the run began
DisksOf(d) == UNION {SeqToSet(RoleDisks(r)) : r \in SeqToSet(at_start[runs].deps[d])}

DeploymentDeletes(d) ==
  {i \in Idx(calls) : calls[i].op = "delete_deployment" /\ calls[i].arg = <<ServiceName, d>>}

\* entry k of the trace is a poll that found the deletion of deployment d in a
\* terminal status
TerminalPoll(d, k) ==
  /\ calls[k].op = "get_operation_status"
  /\ ops[calls[k].arg[1]].kind = "delete_deployment" /\ ops[calls[k].arg[1]].dep = d
  /\ calls[k].res # "InProgress"

ServiceDeletes == {i \in Idx(calls) : calls[i].op = "delete_hosted_service"}

\* C17: when delete_deployment of a deployment has been issued, the disks of
\* all its roles have been collected, and while its completion is awaited the
\* queue holds the references to all of them; every get_disk and delete_disk
\* of a disk of a deployment comes after the delete_deployment of that
\* deployment and after a poll that found it in a terminal status;
\* delete_hosted_service is issued at most once, as the last call, when every
\* deployment of the service has been deleted and every queue emptied, and
\* exactly once when the teardown of an existing service returns.
C17_TeardownOrder ==
  /\ \A d \in DeploymentNames :
       DeploymentDeletes(d) # {} => DisksOf(d) \subseteq SeqToSet(collected)
  /\ (pc = "wait_poll" /\ ret = "td_disks") =>
       {c.disk_name : c \in SeqToSet(disks_to_delete)} = DisksOf(ops[operation].dep)
  /\ \A d \in DeploymentNames : \A j \in Idx(calls) :
       (calls[j].op \in {"get_disk", "delete_disk"} /\ calls[j].arg[1] \in DisksOf(d)) =>
         \E i \in DeploymentDeletes(d) : \E k \in Idx(calls) :
           i < k /\ k < j /\ TerminalPoll(d, k)
  /\ \A s \in ServiceDeletes :
       /\ ServiceDeletes = {s} /\ s = Len(calls)
       /\ disks_to_delete = <<>> /\ td_deployments = <<>>
       /\ \A d \in DeploymentNames :
            at_start[runs].deps[d] # <<>> =>
              /\ DeploymentDeletes(d) # {}
              /\ \A n \in DisksOf(d) : DiskDeletes(n) # {}
              /\ \A i \in DeploymentDeletes(d) : i < s
  /\ (pc = "done" /\ at_start[runs].svc) => Cardinality(ServiceDeletes) = 1

\* the teardown of a service of two deployments, one with a data disk,
\* returned; the deletion of a deployment was found in progress at first
C17_Witness ==
  /\ pc = "done" /\ ServiceDeletes # {}
  /\ \A d \in DeploymentNames : DeploymentDeletes(d) # {}
  /\ \E n \in SeqToSet(collected) : n[2] > 0
  /\ \E k \in Idx(calls) : calls[k].op = "get_operation_status" /\ calls[k].res = "InProgress"

\* the probes of target t in the trace
Probes(t) == {i \in Idx(calls) : calls[i].op = "ssh_up" /\ calls[i].arg = <<t>>}

FirstProbeUp(t) ==
  /\ Probes(t) # {}
  /\ \A i \in Probes(t) : (\A j \in Probes(t) : i <= j) => calls[i].res = "up"

IsPause(c) == c.op = "sleep" /\ c.arg = <<SshSleep>>

\* a target that answers on its first probe is probed once and leaves the
\* queue; a target that never answers has only failed probes, each followed by
\* the pause, stays in the queue, and the loop does not return
C13_Inv ==
  \A t \in SeqToSet(initial_targets) :
    /\ FirstProbeUp(t) => Cardinality(Probes(t)) = 1 /\ t \notin SeqToSet(ssh_targets)
    /\ t \in never.up =>
         /\ \A i \in Probes(t) :
              calls[i].res = "down" /\ i < Len(calls) /\ IsPause(calls[i + 1])
         /\ pc = "ssh_loop" /\ ~SshReturned
         /\ t \in SeqToSet(ssh_targets)

\* two targets, a answered on its first probe and b never answers
TwoTargets(a, b) ==
  /\ SeqToSet(initial_targets) = {a, b} /\ Len(initial_targets) = 2 /\ a # b
  /\ FirstProbeUp(a) /\ b \in never.up

\* b has been probed as many times as the environment lets a probe fail, and
\* is still the pending target
C13_Cutoff ==
  \A a, b \in SeqToSet(initial_targets) :
    TwoTargets(a, b) =>
      /\ delays = 0 /\ Cardinality(Probes(b)) = MaxDelays
      /\ ssh_targets = <<b>> /\ pc = "ssh_loop"

\* C13: with two targets of which A answers on its first probe and B never
\* answers, A is probed exactly once and dropped, every probe of B fails and
\* puts B back in the queue, B is probed again until the cutoff on failed
\* probes (MaxDelays) is reached, and the loop never returns.
C13_NeverReturns == []C13_Inv /\ <>[]C13_Cutoff

\* A was probed once, B as often as the cutoff allows, at least twice
C13_Witness ==
  \E a, b \in SeqToSet(initial_targets) :
    /\ TwoTargets(a, b)
    /\ Cardinality(Probes(a)) = 1
    /\ Cardinality(Probes(b)) >= 2 /\ Cardinality(Probes(b)) = MaxDelays
    /\ ssh_targets = <<b>>

\* one turn of the loop probes the head of the queue; a failed probe moves the
\* head behind all the others and is followed by the pause, a successful one
\* removes it
C18_Step ==
  (pc = "ssh_loop" /\ calls' # calls) =>
    /\ ssh_targets # <<>>
    /\ Len(calls') > Len(calls)
    /\ LET probe == calls'[Len(calls) + 1]
       IN /\ probe.op = "ssh_up" /\ probe.arg = <<Head(ssh_targets)>>
          /\ probe.res = "down" =>
               /\ ssh_targets' = Append(Tail(ssh_targets), Head(ssh_targets))
               /\ calls' = calls \o <<probe, calls'[Len(calls) + 2]>>
               /\ IsPause(calls'[Len(calls) + 2])
          /\ probe.res = "up" =>
               /\ ssh_targets' = Tail(ssh_targets)
               /\ calls' = Append(calls, probe)

\* a target is pending exactly until a probe of it has succeeded, is in the
\* queue once, and no probe of it follows a successful one
C18_Inv ==
  /\ \A i, j \in Idx(calls) :
       (i < j /\ calls[i].op = "ssh_up" /\ calls[i].res = "up") =>
         ~(calls[j].op = "ssh_up" /\ calls[j].arg = calls[i].arg)
  /\ pc = "ssh_loop" =>
       /\ \A t \in SeqToSet(initial_targets) :
            t \in SeqToSet(ssh_targets) <=>
              ~\E i \in Probes(t) : calls[i].res = "up"
       /\ \A i, j \in Idx(ssh_targets) : ssh_targets[i] = ssh_targets[j] => i = j

\* C18: the loop probes the head of the pending queue, one target at a time;
\* a target whose probe fails is put back at the tail, behind every target
\* pending at that moment, and a pause of 1 second follows; a target whose
\* probe succeeds leaves the queue and is never probed again.
C18_FifoProbing == []C18_Inv /\ [][C18_Step]_vars

\* a probe failed while others were pending, and the next probe was of
\* another target
C18_Witness ==
  \E i \in Idx(calls) :
    /\ i + 2 <= Len(calls)
    /\ calls[i].op = "ssh_up" /\ calls[i].res = "down"
    /\ IsPause(calls[i + 1])
    /\ calls[i + 2].op = "ssh_up" /\ calls[i + 2].arg # calls[i].arg

QueuedDisks == {Normalise(c).name : c \in SeqToSet(disks_to_delete)}

\* disk n is never detached and has been fetched in this run
StuckFetched(n) == n \in never.detached /\ Fetches(n) # {}

\* once a disk that stays attached has been fetched, teardown is in the disk
\* loop with that disk pending, every fetch of it answered attached, nothing
\* was raised, the disk was not deleted and delete_hosted_service not issued
C19_Inv ==
  \A n \in never.detached :
    StuckFetched(n) =>
      /\ pc = "td_disks" /\ raised = None
      /\ n \in QueuedDisks
      /\ \A i \in Fetches(n) : calls[i].res = "attached"
      /\ DiskDeletes(n) = {} /\ ServiceDeletes = {}

\* a turn of the loop on a disk that stays attached fetches it and puts it
\* back at the tail of the queue
C19_Step ==
  (/\ pc = "td_disks" /\ disks_to_delete # <<>> /\ calls' # calls
   /\ Normalise(Head(disks_to_delete)).name \in never.detached) =>
    LET n == Normalise(Head(disks_to_delete)).name
    IN /\ calls'[Len(calls')].op = "get_disk" /\ calls'[Len(calls')].arg = <<n>>
       /\ Len(disks_to_delete') = Len(disks_to_delete)
       /\ disks_to_delete'[Len(disks_to_delete')].name = n
       /\ pc' = "td_disks"

\* the run ended: by an exception, or by a return that left neither the
\* service nor a disk
C19_Terminated ==
  \/ raised # None
  \/ /\ pc = "done"
     /\ at_start[runs].svc =>
          /\ ~svc /\ DOMAIN disks = {} /\ ServiceDeletes # {}
          /\ \A n \in ReferencedDisks(at_start[runs]) : DiskDeletes(n) # {}

\* the cutoff on "still attached" answers is reached with the disk pending
C19_Cutoff ==
  \A n \in never.detached :
    StuckFetched(n) =>
      /\ delays = 0 /\ pc = "td_disks"
      /\ Normalise(Head(disks_to_delete)).name = n

\* C19: when every disk is detached in the end, the disk loop of each
\* deployment ends with all the collected disks deleted, and the run ends:
\* with every disk and the service deleted unless a delete_deployment
\* operation failed and raised. When a disk stays attached for ever, the loop
\* fetches it again each time it comes to the head of the queue, up to the
\* cutoff on "still attached" answers (MaxDelays); teardown never leaves the
\* disk loop and never issues delete_hosted_service.
C19_UnboundedReclamation ==
  /\ (never.detached = {}) => <>C19_Terminated
  /\ (never.detached = {} /\ pc = "td_disks") ~>
       (pc = "td_dep" /\ \A k \in Idx(collected) : Deleted(collected[k]))
  /\ []C19_Inv
  /\ [][C19_Step]_vars
  /\ <>[]C19_Cutoff

\* a disk that stays attached was fetched at least twice and is still pending
C19_Witness ==
  \E n \in never.detached :
    /\ Cardinality(Fetches(n)) >= 2
    /\ n \in QueuedDisks
    /\ pc = "td_disks"

\* the entries of the trace in which flow f submitted the creation
Creates(f) ==
  {i \in Idx(calls) : calls[i].op = "create_virtual_machine_deployment" /\ calls[i].iter = f}

FlowLookups(f, res) ==
  {i \in Idx(calls) : /\ calls[i].op = "get_deployment_by_name"
                       /\ calls[i].iter = f /\ calls[i].res = res}

\* the claim as stated, second half: serialized flows submit the creation at
\* most once between them
C20_Original ==
  serialized => Cardinality(UNION {Creates(f) : f \in Flows}) <= 1

\* C20: each flow submits the creation exactly when its own lookup answered
\* "missing", whatever the other flow did since (the interleaving in which
\* both do is C20_Witness); the creation succeeds for at most one flow; and
\* when the caller serializes the flows, a second flow submits the creation
\* only after the flow that submitted it first ended by raising
\* OperationFailed for it, so that of flows that return normally at most one
\* has submitted the creation.
C20_CheckThenAct ==
  /\ \A f \in Flows :
       /\ Creates(f) # {} <=>
            (FlowLookups(f, "missing") # {} /\ flows[f].pc \notin {"dv_get", "dv_submit"})
       /\ Cardinality(Creates(f)) <= 1
  /\ Cardinality({i \in Idx(ops) : /\ ops[i].kind = "create_virtual_machine_deployment"
                                     /\ ops[i].status.status = "Succeeded"}) <= 1
  /\ serialized =>
       /\ \A f, g \in Flows : \A i \in Creates(f) : \A j \in Creates(g) :
            i < j =>
              /\ flows[f].pc = "raised"
              /\ flows[f].raised[1].type = "OperationFailed"
              /\ ops[flows[f].operation].status.status = "Failed"
       /\ Cardinality({f \in Flows : Creates(f) # {} /\ flows[f].pc = "returned"}) <= 1

\* both flows looked the deployment up before either submitted, both were
\* answered "missing" and both submitted the creation
C20_Witness ==
  /\ ~serialized
  /\ \A f \in Flows : Creates(f) # {}
  /\ \A f, g \in Flows : \A i \in FlowLookups(f, "missing") : \A j \in Creates(g) : i < j

\* the provider calls that return an operation handle
HandleOps == {"create_virtual_machine_deployment", "add_role", "delete_deployment",
              "add_os_image", "start_roles", "shutdown_roles"}

IsHandleCall(c) == c.op \in HandleOps

\* the provider calls that change something
IsMutating(c) ==
  c.op \in HandleOps \cup {"create_hosted_service", "create_container", "copy_blob",
                           "delete_disk", "delete_hosted_service"}

\* the entries of the trace that returned a handle, in order: the k-th one
\* returned request id k
SubmitIdx(rid) ==
  CHOOSE i \in Idx(calls) :
    IsHandleCall(calls[i]) /\ Cardinality({j \in 1..i : IsHandleCall(calls[j])}) = rid

TerminalPolls(rid) == {i \in Polls(rid) : calls[i].res # "InProgress"}

IsWaitEntry(c, rid) ==
  \/ c.op = "get_operation_status" /\ c.arg = <<rid>>
  \/ c.op = "sleep" /\ c.arg = <<OpSleep>>

\* C21: every handle returned by create_virtual_machine_deployment, add_role,
\* delete_deployment, add_os_image, start_roles or shutdown_roles is awaited
\* by one wait_for_operation that starts right after the call: its polls are
\* one unbroken run of polls and sleeps after the submission, the run ends at
\* the first terminal status and no poll of the handle follows it; a handle
\* without a terminal poll is the last one submitted and is being awaited;
\* and every mutating provider call made after the submission comes after
\* the terminal poll.
C21_HandlesAwaitedOnce ==
  /\ Count(calls, IsHandleCall) = Len(ops)
  /\ \A rid \in Idx(ops) :
       LET s == SubmitIdx(rid)
       IN /\ calls[s].op = ops[rid].kind
          /\ \A i \in Polls(rid) :
               s < i /\ \A k \in (s + 1)..i : IsWaitEntry(calls[k], rid)
          /\ Cardinality(TerminalPolls(rid)) <= 1
          /\ \A t \in TerminalPolls(rid) : \A i \in Polls(rid) : i <= t
          /\ TerminalPolls(rid) = {} =>
               rid = Len(ops) /\ operation = rid /\ pc = "wait_poll"
          /\ pc = "wait_poll" => operation = Len(ops)
          /\ \A m \in Idx(calls) :
               (s < m /\ IsMutating(calls[m])) => \E t \in TerminalPolls(rid) : t < m

\* a run that submitted every kind of operation returned, one of the
\* operations having been found in progress at first
C21_Witness ==
  /\ pc = "done"
  /\ {ops[rid].kind : rid \in Idx(ops)} = HandleOps
  /\ \E i \in Idx(calls) : calls[i].op = "get_operation_status" /\ calls[i].res = "InProgress"

\* entry i of the trace is the poll that found a delete_deployment Failed
DeleteFailedAt(i) ==
  /\ calls[i].op = "get_operation_status" /\ calls[i].res = "Failed"
  /\ ops[calls[i].arg[1]].kind = "delete_deployment"

\* deployment d and its disks are as they were when the run began
Untouched(d) ==
  /\ deps[d] = at_start[runs].deps[d]
  /\ \A n \in DisksOf(d) :
       /\ n \in DOMAIN disks /\ disks[n] = at_start[runs].disks[n]
       /\ Fetches(n) = {} /\ DiskDeletes(n) = {}

\* the failed poll is the last entry of the trace, OperationFailed was raised
\* with the code and message of the status and the run is over; the service
\* exists, and the deployment whose deletion failed and those not yet reached
\* are untouched, their disks neither fetched nor deleted
C22_Inv ==
  \A i \in Idx(calls) :
    DeleteFailedAt(i) =>
      LET d == ops[calls[i].arg[1]].dep
      IN /\ i = Len(calls)
         /\ pc = "aborted"
         /\ raised = Some(OperationFailed(status.error[1].code, status.error[1].message))
         /\ svc /\ ServiceDeletes = {}
         /\ Cardinality(DeploymentDeletes(d)) = 1
         /\ Untouched(d)
         /\ \A k \in Idx(td_deployments) :
              /\ DeploymentDeletes(td_deployments[k].name) = {}
              /\ Untouched(td_deployments[k].name)

\* C22: when the delete_deployment awaited by teardown ends Failed, teardown
\* raises OperationFailed and the run takes no further step: no get_disk, no
\* delete_disk, no delete_deployment of a remaining deployment and no
\* delete_hosted_service follows; the service, the deployment whose deletion
\* failed, the remaining deployments and their disks are left as they were.
C22_FailedDeleteAborts == []C22_Inv /\ [][pc # "aborted"]_vars

\* the deletion of the first of two deployments failed
C22_Witness ==
  /\ pc = "aborted" /\ calls # <<>> /\ DeleteFailedAt(Len(calls))
  /\ td_deployments # <<>>
  /\ raised # None /\ raised[1].type = "OperationFailed"

====
